---------------------------- MODULE Spec2Model ----------------------------
(***************************************************************************)
(* A model of models/pyMix.py: the EM engine of GMM.fit, the E-step and    *)
(* M-step of the five mixture variants (GMM, SphericalGMM, DiagonalGMM,    *)
(* MPPCA, MFA), and the scoring / sampling operations of a model object.   *)
(*                                                                         *)
(* Numbers.  numpy floats are modelled as exact rationals extended with    *)
(* nan, +inf and -inf (records [k, n, d]).  Log-likelihoods and the        *)
(* tolerance are counted in units of 1e-3.                                 *)
(*                                                                         *)
(* Per-component values.  The numerical content of a mean, a covariance    *)
(* or a loading matrix is produced and consumed only by the linear-algebra *)
(* and density primitives (scipy / numpy / util); an entry of a            *)
(* per-component list is carried as a slot [comp, dim, nan]: the component *)
(* it was estimated for, its dimensionality, and whether it is nan.        *)
(* Densities returned by mvn.pdf / _mv_gaussian_pdf are drawn from         *)
(* DensVals.                                                               *)
(***************************************************************************)
EXTENDS Integers, Sequences, FiniteSets, TLC

\* ------------------------------------------------------------------ bounds
\* n_components is drawn from 1..MaxComponents, max_iter from 0..MaxIterArg;
\* a fit is followed for at most MaxEmIter iterations; a behaviour makes at
\* most MaxFits calls of fit and MaxQueries calls of the other operations
MaxComponents == 2
MaxIterArg == 2
MaxEmIter == 2
MaxFits == 1
MaxQueries == 1

\* --------------------------------------------------------- program constants
\* tol=1e-3 (one unit), max_iter=1000, random_state=0 in GMM.__init__
DefaultTol == 1
DefaultMaxIter == 1000
DefaultRandomState == 0

\* ------------------------------------------------------------------ floats
Abs(x) == IF x < 0 THEN -x ELSE x

RECURSIVE GCD(_, _)
GCD(a, b) == IF b = 0 THEN a ELSE GCD(b, a % b)

NaN == [k |-> "nan", n |-> 0, d |-> 1]
PInf == [k |-> "pinf", n |-> 0, d |-> 1]
NInf == [k |-> "ninf", n |-> 0, d |-> 1]

\* the rational n/d (d # 0) in lowest terms with a positive denominator
Fin(n, d) ==
    LET g == GCD(Abs(n), Abs(d))
        s == IF d < 0 THEN -1 ELSE 1
    IN  [k |-> "fin", n |-> (s * n) \div g, d |-> (s * d) \div g]

Zero == Fin(0, 1)
One == Fin(1, 1)
IsFin(a) == a.k = "fin"
IsInf(a) == a.k \in {"pinf", "ninf"}
Sign(a) ==
    CASE a.k = "pinf" -> 1
      [] a.k = "ninf" -> -1
      [] a.k = "fin" -> (IF a.n > 0 THEN 1 ELSE IF a.n < 0 THEN -1 ELSE 0)
      [] OTHER -> 0
InfOfSign(s) == IF s > 0 THEN PInf ELSE NInf

FNeg(a) ==
    CASE a.k = "fin" -> Fin(-a.n, a.d)
      [] a.k = "pinf" -> NInf
      [] a.k = "ninf" -> PInf
      [] OTHER -> NaN

FAdd(a, b) ==
    CASE a.k = "nan" \/ b.k = "nan" -> NaN
      [] IsInf(a) /\ IsInf(b) -> (IF a.k = b.k THEN a ELSE NaN)
      [] IsInf(a) -> a
      [] IsInf(b) -> b
      [] OTHER -> Fin(a.n * b.d + b.n * a.d, a.d * b.d)

FSub(a, b) == FAdd(a, FNeg(b))

FMul(a, b) ==
    CASE a.k = "nan" \/ b.k = "nan" -> NaN
      [] IsInf(a) \/ IsInf(b) ->
            (IF Sign(a) * Sign(b) = 0 THEN NaN ELSE InfOfSign(Sign(a) * Sign(b)))
      [] OTHER -> Fin(a.n * b.n, a.d * b.d)

FDiv(a, b) ==
    CASE a.k = "nan" \/ b.k = "nan" -> NaN
      [] IsInf(a) /\ IsInf(b) -> NaN
      [] IsInf(a) -> InfOfSign(Sign(a) * (IF Sign(b) < 0 THEN -1 ELSE 1))
      [] IsInf(b) -> Zero
      [] b.n = 0 -> (IF a.n = 0 THEN NaN ELSE InfOfSign(Sign(a)))
      [] OTHER -> Fin(a.n * b.d, a.d * b.n)

FAbs(a) ==
    CASE a.k = "fin" -> Fin(Abs(a.n), a.d)
      [] IsInf(a) -> PInf
      [] OTHER -> NaN

\* a < b as IEEE compares: FALSE whenever an operand is nan
FLess(a, b) ==
    CASE a.k = "nan" \/ b.k = "nan" -> FALSE
      [] a.k = "pinf" -> FALSE
      [] b.k = "ninf" -> FALSE
      [] a.k = "ninf" -> TRUE
      [] b.k = "pinf" -> TRUE
      [] OTHER -> a.n * b.d < b.n * a.d

RECURSIVE FloorLog2(_, _)
\* floor(log2(n/d)) for n, d > 0
FloorLog2(n, d) ==
    IF n >= d THEN (IF n >= 2 * d THEN 1 + FloorLog2(n, 2 * d) ELSE 0)
    ELSE FloorLog2(2 * n, d) - 1

\* np.log in units of 1e-3, resolved to whole binary orders of magnitude
\* (ln 2 = 693 units); log(0) = -inf, log of a negative number or nan = nan
FLog(a) ==
    CASE a.k = "nan" -> NaN
      [] a.k = "pinf" -> PInf
      [] a.k = "ninf" -> NaN
      [] a.n = 0 -> NInf
      [] a.n < 0 -> NaN
      [] OTHER -> Fin(693 * FloorLog2(a.n, a.d), 1)

RECURSIVE FSumTo(_, _)
\* s[1] + ... + s[m]
FSumTo(s, m) == IF m = 0 THEN Zero ELSE FAdd(FSumTo(s, m - 1), s[m])

\* ndarray.sum over one axis
FSum(s) == FSumTo(s, Len(s))

\* ndarray.mean / np.mean over one axis
FMean(s) == FDiv(FSum(s), Fin(Len(s), 1))

Min2(a, b) == IF a < b THEN a ELSE b
Max2(a, b) == IF a > b THEN a ELSE b


\* ------------------------------------------------------------ the variants
Variants == {"GMM", "SphericalGMM", "DiagonalGMM", "MPPCA", "MFA"}
LowRank(cls) == cls \in {"MPPCA", "MFA"}

\* ---------------------------------------------------------------- the data
\* A data matrix is carried by its shape: n examples of d features, in two
\* groups of n/2 examples (a density is the same within a group).
DataSets == {[n |-> 2, d |-> 1], [n |-> 4, d |-> 2]}
Group(e, n) == IF 2 * e <= n THEN 1 ELSE 2

\* values a density primitive returns for a finite covariance (0: underflow)
DensVals == {0, 1}
DensTables(m) == [1..2 -> [1..m -> DensVals]]

\* every example has a positive density under some component: the case of
\* parameters estimated from clusters of the data itself, where no example is
\* far from the mean of its own cluster
Covered(dt) == \A g \in DOMAIN dt : \E k \in DOMAIN dt[g] : dt[g][k] > 0

\* ------------------------------------------------------------ the parameters
Slot(c, dim, bad) == [comp |-> c, dim |-> dim, nan |-> bad]

\* Python None where a parameter dictionary is expected
NoneParams ==
    [kind |-> "none", components |-> <<>>, mu_list |-> <<>>,
     cov_list |-> <<>>, W_list |-> <<>>, rev |-> 0]

\* a parameter dictionary: 'components', 'mu_list', the variant's covariance
\* list ('Sigma_list', 'sigma_sq_list' or 'Psi_list') and, for the low-rank
\* variants, 'W_list'.  rev tells the dictionaries of one fit call apart: 0 for
\* the initial one, and each M-step builds a new dictionary of re-estimated
\* values
Dict(comps, mus, covs, Ws) ==
    [kind |-> "dict", components |-> comps, mu_list |-> mus,
     cov_list |-> covs, W_list |-> Ws, rev |-> 0]

\* the constructors: GMM.__init__ stores its arguments; MPPCA.__init__ and
\* MFA.__init__ call it with the literals tol=1e-3, max_iter=1000,
\* random_state=0, verbose=True
GMMInit(K, a) ==
    [n_components |-> K, tol |-> a.tol, max_iter |-> a.max_iter,
     random_state |-> a.random_state, verbose |-> a.verbose,
     isFitted |-> FALSE,
     params |-> [NoneParams EXCEPT !.kind = "unset"],
     hasNll |-> FALSE, trainNll |-> NaN, data_dim |-> 0]

LowRankInit(K, a) ==
    GMMInit(K, [tol |-> DefaultTol, max_iter |-> DefaultMaxIter,
                random_state |-> DefaultRandomState, verbose |-> TRUE])

Construct(cls, K, a) == IF LowRank(cls) THEN LowRankInit(K, a) ELSE GMMInit(K, a)

\* _params_to_Sigma: the covariance each component is evaluated with
ParamsToSigma(cls, data_dim, p) ==
    CASE cls \in {"GMM", "DiagonalGMM"} -> p.cov_list
      [] cls = "SphericalGMM" ->
            [j \in 1..Len(p.cov_list) |->
                Slot(p.cov_list[j].comp, data_dim, p.cov_list[j].nan)]
      [] OTHER ->
            [j \in 1..Min2(Len(p.W_list), Len(p.cov_list)) |->
                Slot(p.W_list[j].comp, p.W_list[j].dim,
                     p.W_list[j].nan \/ p.cov_list[j].nan)]

\* KMeans labels: the n examples in K clusters of balanced size
ClusterSize(n, K, j) == (n \div K) + (IF j <= n % K THEN 1 ELSE 0)

\* _init_params: None unless init_method is 'kmeans'; a cluster of one example
\* has no sample covariance (np.cov, PCA and FactorAnalysis give nan)
InitParams(cls, K, init_method, X) ==
    IF init_method # "kmeans" THEN NoneParams
    ELSE LET mus == [j \in 1..K |-> Slot(j, X.d, FALSE)]
             est == [j \in 1..K |-> Slot(j, X.d, ClusterSize(X.n, K, j) < 2)]
             comps == [j \in 1..K |-> Fin(ClusterSize(X.n, K, j), X.n)]
         IN  Dict(comps, mus, est, IF LowRank(cls) THEN est ELSE <<>>)

\* ---------------------------------------------------------------- the E-step
\* number of components the density loop fills:
\* zip(range(n_components), mu_list, Sigma_list)
Filled(cls, K, data_dim, p) ==
    Min2(K, Min2(Len(p.mu_list), Len(ParamsToSigma(cls, data_dim, p))))

\* zip(mu_list, W_list, sigma_sq_list / Psi_list) of the low-rank E-steps
LatentLen(p) == Min2(Len(p.mu_list), Min2(Len(p.W_list), Len(p.cov_list)))

\* the E-step raises: params is None, an operand's dimensionality is not that
\* of X, or r * components does not broadcast
EStepRaises(cls, K, data_dim, X, p) ==
    LET Sig == ParamsToSigma(cls, data_dim, p)
        m == Filled(cls, K, data_dim, p)
        C == Len(p.components)
    IN  \/ p.kind # "dict"
        \/ \E k \in 1..m : p.mu_list[k].dim # X.d \/ Sig[k].dim # X.d
        \/ ~(C = K \/ C = 1 \/ K = 1)
        \/ LowRank(cls) /\ \E j \in 1..LatentLen(p) :
                p.mu_list[j].dim # X.d \/ p.W_list[j].dim # X.d

\* r after the density loop: column k is the density of component k (nan when
\* its mean or covariance is nan); unfilled columns stay np.zeros
DensityMatrix(cls, K, data_dim, X, p, dt) ==
    LET Sig == ParamsToSigma(cls, data_dim, p)
        m == Filled(cls, K, data_dim, p)
    IN  [e \in 1..X.n |-> [k \in 1..K |->
            IF k > m THEN Zero
            ELSE IF p.mu_list[k].nan \/ Sig[k].nan THEN NaN
            ELSE Fin(dt[Group(e, X.n)][k], 1)]]

\* r = r * components (numpy broadcasting of [n, K] with [C])
Weighted(r0, K, comps) ==
    LET C == Len(comps)
        width == Max2(K, C)
    IN  [e \in 1..Len(r0) |-> [j \in 1..width |->
            FMul(r0[e][IF K = 1 THEN 1 ELSE j], comps[IF C = 1 THEN 1 ELSE j])]]

\* responsibilities = r / r_sum[:, np.newaxis]
Responsibilities(r) ==
    [e \in 1..Len(r) |-> [j \in 1..Len(r[e]) |-> FDiv(r[e][j], FSum(r[e]))]]

\* sample_ll = np.log(r_sum)
SampleLl(r) == [e \in 1..Len(r) |-> FLog(FSum(r[e]))]

\* z_list / zz_list of the low-rank E-steps (empty for the other variants)
LatentStats(cls, p) ==
    IF LowRank(cls)
    THEN [j \in 1..LatentLen(p) |->
            Slot(p.mu_list[j].comp, p.mu_list[j].dim,
                 p.mu_list[j].nan \/ p.W_list[j].nan \/ p.cov_list[j].nan)]
    ELSE <<>>

\* _e_step: (ss, sample_ll)
EStep(cls, K, data_dim, X, p, dt) ==
    LET r == Weighted(DensityMatrix(cls, K, data_dim, X, p, dt), K, p.components)
    IN  [ss |-> [responsibilities |-> Responsibilities(r),
                 z_list |-> LatentStats(cls, p)],
         sample_ll |-> SampleLl(r)]

\* ---------------------------------------------------------------- the M-step
Column(resp, j) == [e \in 1..Len(resp) |-> resp[e][j]]
Width(resp) == Len(resp[1])

\* components = np.mean(resp, axis=0)
MeanResp(resp) == [j \in 1..Width(resp) |-> FMean(Column(resp, j))]

\* a quotient by r.sum() is finite only for a finite, non-zero r.sum()
BadSum(col) == LET s == FSum(col) IN ~(IsFin(s) /\ s.n # 0)

\* number of components the M-step loop re-estimates: every column of resp, or
\* zip(resp.T, W_list_old, z_list, zz_list) for the low-rank variants
Reestimated(cls, ss, p) ==
    IF LowRank(cls)
    THEN Min2(Width(ss.responsibilities), Min2(Len(p.W_list), Len(ss.z_list)))
    ELSE Width(ss.responsibilities)

\* the M-step raises: SphericalGMM reads params['mu_list'][0]; the low-rank
\* variants invert sum(zz * r), which is the zero matrix for a column of zeros
MStepRaises(cls, ss, p) ==
    \/ cls = "SphericalGMM" /\ Len(p.mu_list) = 0
    \/ LowRank(cls) /\ \E j \in 1..Reestimated(cls, ss, p) :
            \A e \in 1..Len(ss.responsibilities) :
                ss.responsibilities[e][j] = Zero

\* _m_step: the new parameter dictionary
MStep(cls, X, ss, p) ==
    LET resp == ss.responsibilities
        L == Reestimated(cls, ss, p)
        est == [j \in 1..L |->
                  Slot(j, X.d,
                       \/ BadSum(Column(resp, j))
                       \/ LowRank(cls) /\ (ss.z_list[j].nan \/ p.W_list[j].nan))]
    IN  [Dict(MeanResp(resp), est, est, IF LowRank(cls) THEN est ELSE <<>>)
            EXCEPT !.rev = p.rev + 1]


\* ------------------------------------------------------------------- state
VARIABLES
    cls,        \* the class of the model object
    given,      \* the arguments its constructor was called with
    self,       \* the attributes of the model object
    seedState,  \* what random.seed was last called with (-1: never)
    pc,         \* "idle", or the place of the running fit call
    X,          \* fit: the training data
    lp,         \* fit: the local variable params
    oldL,       \* fit: the local variable oldL
    ll,         \* fit: the local variable ll ([bound, v]; unbound before the loop)
    i,          \* fit: the loop index
    ss,         \* fit: the sufficient statistics of the last E-step
    hist,       \* history of the current / last fit call
    origin,     \* history of the fit call that assigned self.params
    out,        \* what the current / last call printed
    ret,        \* how the last call ended
    nFits,      \* fit calls made
    nQueries    \* sample / score_samples / score calls made

vars == <<cls, given, self, seedState, pc, X, lp, oldL, ll, i, ss, hist,
          origin, out, ret, nFits, nQueries>>

frame == <<X, lp, oldL, ll, i, ss>>

UnsetParams == [NoneParams EXCEPT !.kind = "unset"]
NoData == [n |-> 0, d |-> 0]
NoSs == [responsibilities |-> <<>>, z_list |-> <<>>]
Unbound == [bound |-> FALSE, v |-> NaN]
Bound(v) == [bound |-> TRUE, v |-> v]

NoHist ==
    [supplied |-> UnsetParams, method |-> "", initCalls |-> 0,
     initOut |-> UnsetParams, eCount |-> 0, mCount |-> 0,
     firstE |-> UnsetParams, lastE |-> UnsetParams, lastM |-> UnsetParams,
     exit |-> "none", X |-> NoData, lastLl |-> NaN, before |-> UnsetParams]

Quiet == [iter |-> 0, noconv |-> FALSE, notfitted |-> FALSE]

Ret(op, kind) ==
    [op |-> op, kind |-> kind, val |-> <<>>, nested |-> <<>>, shape |-> <<0, 0>>]

\* the constructor arguments a model is built with: any max_iter up to the
\* bound, with either the default tolerance and seed and the diagnostics on,
\* or a looser tolerance, another seed and the diagnostics off
TolArgs == {DefaultTol, 1000 * DefaultTol}
GivenArgs ==
    {a \in [tol : TolArgs, max_iter : 0..MaxIterArg, random_state : {0, 1},
            verbose : BOOLEAN] :
        /\ a.verbose = (a.random_state = DefaultRandomState)
        /\ (a.tol = DefaultTol) = (a.random_state = DefaultRandomState)}

Init ==
    /\ cls \in Variants
    /\ given \in GivenArgs
    /\ \E K \in 1..MaxComponents : self = Construct(cls, K, given)
    /\ seedState = -1
    /\ pc = "idle"
    /\ X = NoData /\ lp = UnsetParams /\ oldL = NaN /\ ll = Unbound
    /\ i = 0 /\ ss = NoSs
    /\ hist = NoHist /\ origin = NoHist /\ out = Quiet /\ ret = Ret("new", "none")
    /\ nFits = 0 /\ nQueries = 0

\* ------------------------------------------------------------------- fit
InitMethods == {"kmeans", "random"}

Uniform(K, v) == [j \in 1..K |-> v]
Slots(m, dim) == [j \in 1..m |-> Slot(j, dim, FALSE)]
Supplied(c, comps, m, dim) ==
    Dict(comps, Slots(m, dim), Slots(m, dim),
         IF LowRank(c) THEN Slots(m, dim) ELSE <<>>)

\* parameter dictionaries a caller passes as params_init: a well-formed one,
\* one whose per-component lists miss an entry, one with an extra weight, one
\* with a negative weight
SuppliedParams(c, K, dim) ==
    { Supplied(c, Uniform(K, Fin(1, K)), K, dim),
      Supplied(c, Uniform(K, Fin(1, K)), K - 1, dim),
      Supplied(c, Uniform(K + 1, Fin(1, K + 1)), K, dim),
      Supplied(c, [j \in 1..K |-> IF j = 1 THEN Fin(K + 1, 2) ELSE Fin(-1, 2)],
               K, dim) }

\* the call returns (or raises): the locals are gone
Return(r) ==
    /\ pc' = "idle"
    /\ ret' = r
    /\ X' = NoData /\ lp' = UnsetParams /\ oldL' = NaN /\ ll' = Unbound
    /\ i' = 0 /\ ss' = NoSs

\* a variant that starts the loop with oldL = 0
InitialOldLZero == Zero

\* oldL = -np.inf
InitialOldL == NInf

\* fit, up to the head of the loop
FitBegin ==
    /\ pc = "idle"
    /\ nFits < MaxFits
    /\ nFits' = nFits + 1
    /\ out' = Quiet
    /\ \E Xa \in DataSets, method \in InitMethods :
       \E pinit \in {NoneParams} \cup
                     (IF method = "kmeans"
                      THEN SuppliedParams(cls, self.n_components, Xa.d) ELSE {}) :
        /\ self' = [self EXCEPT !.data_dim = Xa.d]
        /\ IF pinit.kind = "none"
           THEN /\ seedState' = self.random_state
                /\ hist' = [NoHist EXCEPT !.supplied = pinit, !.method = method,
                              !.initCalls = 1, !.X = Xa, !.before = self,
                              !.initOut = InitParams(cls, self.n_components, method, Xa),
                              !.exit = IF method = "kmeans" /\ self.n_components > Xa.n
                                       THEN "raise" ELSE "none"]
                /\ IF method = "kmeans" /\ self.n_components > Xa.n
                   THEN Return(Ret("fit", "raise"))
                   ELSE /\ lp' = InitParams(cls, self.n_components, method, Xa)
                        /\ pc' = "loop" /\ X' = Xa /\ oldL' = InitialOldL /\ i' = 0
                        /\ UNCHANGED <<ll, ss, ret>>
           ELSE /\ hist' = [NoHist EXCEPT !.supplied = pinit, !.method = method,
                              !.X = Xa, !.before = self]
                /\ lp' = pinit
                /\ pc' = "loop" /\ X' = Xa /\ oldL' = InitialOldL /\ i' = 0
                /\ UNCHANGED <<ll, ss, ret, seedState>>
    /\ UNCHANGED <<cls, given, origin, nQueries>>

\* a variant of the test that breaks unless the change exceeds the tolerance
ConvergedUnlessGreater(llv, old, tol) ==
    ~FLess(Fin(tol, 1), FAbs(FSub(llv, old)))

\* np.abs(ll - oldL) < self.tol
Converged(llv, old, tol) == FLess(FAbs(FSub(llv, old)), Fin(tol, 1))

\* one pass of the loop body up to the M-step: E-step, likelihood, diagnostic,
\* convergence test
LoopIter ==
    /\ pc = "loop"
    /\ i < self.max_iter
    /\ i < MaxEmIter
    /\ UNCHANGED <<cls, given, self, seedState, origin, nFits, nQueries>>
    /\ \/ \* the E-step raises (bad operands, or a primitive meets a singular matrix)
          /\ hist' = [hist EXCEPT !.eCount = @ + 1, !.lastE = lp, !.exit = "raise",
                        !.firstE = IF hist.eCount = 0 THEN lp ELSE @]
          /\ Return(Ret("fit", "raise"))
          /\ UNCHANGED out
       \/ /\ ~EStepRaises(cls, self.n_components, self.data_dim, X, lp)
          /\ \E dt \in {t \in DensTables(Filled(cls, self.n_components,
                                                  self.data_dim, lp)) :
                              (hist.eCount = 0 /\ hist.supplied.kind = "none")
                                  => Covered(t)} :
               LET res == EStep(cls, self.n_components, self.data_dim, X, lp, dt)
                   llv == FSum(res.sample_ll)
                   brk == Converged(llv, oldL, self.tol)
               IN  /\ ss' = res.ss
                   /\ ll' = Bound(llv)
                   /\ out' = [out EXCEPT !.iter = IF self.verbose THEN @ + 1 ELSE @]
                   /\ hist' = [hist EXCEPT !.eCount = @ + 1, !.lastE = lp,
                                 !.lastLl = llv,
                                 !.firstE = IF hist.eCount = 0 THEN lp ELSE @,
                                 !.exit = IF brk THEN "break" ELSE @]
                   /\ oldL' = IF brk THEN oldL ELSE llv
                   /\ pc' = IF brk THEN "store" ELSE "mstep"
                   /\ UNCHANGED <<X, lp, i, ret>>

\* the M-step of the pass, and the next value of the loop index
LoopMStep ==
    /\ pc = "mstep"
    /\ UNCHANGED <<cls, given, self, seedState, origin, nFits, nQueries, out>>
    /\ IF MStepRaises(cls, ss, lp)
       THEN /\ hist' = [hist EXCEPT !.exit = "raise"]
            /\ Return(Ret("fit", "raise"))
       ELSE /\ lp' = MStep(cls, X, ss, lp)
            /\ i' = i + 1
            /\ pc' = "loop"
            /\ hist' = [hist EXCEPT !.mCount = @ + 1, !.lastM = MStep(cls, X, ss, lp)]
            /\ UNCHANGED <<X, oldL, ll, ss, ret>>

\* the else clause of the loop: max_iter passes were made without a break
LoopElse ==
    /\ pc = "loop"
    /\ i = self.max_iter
    /\ out' = [out EXCEPT !.noconv = self.verbose]
    /\ hist' = [hist EXCEPT !.exit = "else"]
    /\ pc' = "store"
    /\ UNCHANGED <<cls, given, self, seedState, origin, nFits, nQueries, frame,
                   ret>>

\* a variant that stores the log-likelihood of the pass before
StoredOldL(llv, old) == old

\* self.trainNll = ll
StoredNll(llv, old) == llv

\* "Update Object attributes": self.params, then self.trainNll (ll is unbound
\* when the loop body never ran), then self.isFitted
FitStore ==
    /\ pc = "store"
    /\ UNCHANGED <<cls, given, seedState, nFits, nQueries, out>>
    /\ origin' = hist
    /\ IF ll.bound
       THEN /\ self' = [self EXCEPT !.params = lp, !.hasNll = TRUE,
                          !.trainNll = StoredNll(ll.v, oldL), !.isFitted = TRUE]
            /\ hist' = hist
            /\ Return(Ret("fit", "none"))
       ELSE /\ self' = [self EXCEPT !.params = lp]
            /\ hist' = hist
            /\ Return(Ret("fit", "raise"))

\* ----------------------------------------------- sample, score_samples, score
\* np.cumsum(components)
Cumsum(s) == [j \in 1..Len(s) |-> FSumTo(s, j)]

\* np.argmin(r > components_cumsum), one-based: the first component whose
\* cumulative weight r does not exceed, the first of all when there is none
ArgminGreater(r, cum) ==
    LET notGreater == {j \in 1..Len(cum) : ~FLess(cum[j], r)}
    IN  IF notGreater = {} THEN 1
        ELSE CHOOSE j \in notGreater : \A h \in notGreater : j <= h

\* values of np.random.rand(1) followed
RandVals == {Zero, Fin(1, 2)}

NotFitted(op) ==
    /\ out' = [Quiet EXCEPT !.notfitted = TRUE]
    /\ ret' = Ret(op, "none")

\* a variant in which a query records a data dimensionality, as fit does
QueryFrameRecordsDim ==
    /\ pc = "idle"
    /\ nQueries < MaxQueries
    /\ nQueries' = nQueries + 1
    /\ \E Xq \in DataSets : self' = [self EXCEPT !.data_dim = Xq.d]
    /\ UNCHANGED <<cls, given, seedState, pc, frame, hist, origin, nFits>>

QueryFrame ==
    /\ pc = "idle"
    /\ nQueries < MaxQueries
    /\ nQueries' = nQueries + 1
    /\ UNCHANGED <<cls, given, self, seedState, pc, frame, hist, origin, nFits>>

\* sample(n_samples=1)
Sample ==
    /\ QueryFrame
    /\ IF ~self.isFitted
       THEN NotFitted("sample")
       ELSE /\ out' = Quiet
            /\ \E r \in RandVals :
                 LET Sig == ParamsToSigma(cls, self.data_dim, self.params)
                     z == ArgminGreater(r, Cumsum(self.params.components))
                 IN  IF \/ z > Len(self.params.mu_list) \/ z > Len(Sig)
                        \/ self.params.mu_list[z].dim # self.data_dim
                        \/ Sig[z].dim # self.data_dim
                     THEN ret' = Ret("sample", "raise")
                     ELSE ret' = [Ret("sample", "value") EXCEPT
                                     !.val = <<Fin(z, 1)>>,
                                     !.shape = <<1, self.data_dim>>]

\* what score_samples returns on a fitted model: self._e_step(X, self.params)[1]
ScoreSamplesOf(Xq, dt) ==
    EStep(cls, self.n_components, self.data_dim, Xq, self.params, dt).sample_ll

\* a variant that returns the total instead of the mean
ScoreOfSum(sample_ll) == FSum(sample_ll)

\* what score returns, given what its call of score_samples returned
ScoreOf(sample_ll) == FMean(sample_ll)

\* score_samples(X)
ScoreSamples ==
    /\ QueryFrame
    /\ IF ~self.isFitted
       THEN NotFitted("score_samples")
       ELSE /\ out' = Quiet
            /\ \E Xq \in DataSets :
                 \/ ret' = Ret("score_samples", "raise")
                 \/ /\ ~EStepRaises(cls, self.n_components, self.data_dim, Xq,
                                    self.params)
                    /\ \E dt \in DensTables(Filled(cls, self.n_components,
                                                   self.data_dim, self.params)) :
                         ret' = [Ret("score_samples", "value") EXCEPT
                                    !.val = ScoreSamplesOf(Xq, dt)]

\* score(X)
Score ==
    /\ QueryFrame
    /\ IF ~self.isFitted
       THEN NotFitted("score")
       ELSE /\ out' = Quiet
            /\ \E Xq \in DataSets :
                 \/ ret' = Ret("score", "raise")
                 \/ /\ ~EStepRaises(cls, self.n_components, self.data_dim, Xq,
                                    self.params)
                    /\ \E dt \in DensTables(Filled(cls, self.n_components,
                                                   self.data_dim, self.params)) :
                         ret' = [Ret("score", "value") EXCEPT
                                    !.val = <<ScoreOf(ScoreSamplesOf(Xq, dt))>>,
                                    !.nested = ScoreSamplesOf(Xq, dt)]

\* ------------------------------------------------------------ specification
Next ==
    \/ FitBegin
    \/ LoopIter
    \/ LoopMStep
    \/ LoopElse
    \/ FitStore
    \/ Sample
    \/ ScoreSamples
    \/ Score

Spec == Init /\ [][Next]_vars

\* ================================================================== claims
\* ---------------------------------------------------------------------- C1
\* C1: a call of sample, score_samples or score on a model that is not fitted
\* ends as an error, never as a normal return.
C1_UnfittedQueryIsError ==
    (pc = "idle" /\ ret.op \in {"sample", "score_samples", "score"} /\ ~self.isFitted) => ret.kind = "raise"

\* ---------------------------------------------------------------------- C2
\* C2: for every variant, the tolerance, the maximum iteration count, the
\* random seed and the verbosity flag the model holds (and fit reads) are the
\* ones given at construction, and fit seeds with the given seed.
C2_HoldsGivenConfiguration ==
    /\ self.tol = given.tol
    /\ self.max_iter = given.max_iter
    /\ self.random_state = given.random_state
    /\ self.verbose = given.verbose
    /\ seedState \in {-1, given.random_state}

\* ---------------------------------------------------------------------- C3
\* C3: when the tolerance test succeeds, the loop stops without running the
\* M-step of that pass: the parameters kept, and then stored on the model, are
\* the output of the previous M-step, which are the parameters the last
\* E-step was evaluated on.
C3_ConvergedKeepsPreviousMStep ==
    /\ (pc = "store" /\ hist.exit = "break") =>
          /\ hist.mCount >= 1
          /\ hist.mCount = hist.eCount - 1
          /\ lp = hist.lastM
          /\ lp = hist.lastE
    /\ (origin.exit = "break") =>
          /\ origin.mCount >= 1
          /\ origin.mCount = origin.eCount - 1
          /\ self.params = origin.lastM
          /\ self.params = origin.lastE

\* a fit converged after two M-steps' worth of passes and stored its result
C3_Witness ==
    /\ pc = "idle" /\ self.isFitted
    /\ origin.exit = "break" /\ origin.eCount = 2
    /\ origin.supplied.kind = "none"
    /\ self.params # origin.firstE

\* ---------------------------------------------------------------------- C4
\* C4: a fit whose max_iter passes all fail the tolerance test keeps the
\* output of the last M-step, returns without raising, and raises the
\* 'did not converge' signal, whatever the configuration.
C4_ExhaustedWarnsAndReturns ==
    (pc = "idle" /\ ret.op = "fit" /\ hist.exit = "else") =>
        /\ ret.kind = "none"
        /\ out.noconv
        /\ self.isFitted
        /\ self.params = hist.lastM

\* ---------------------------------------------------------------------- C5
\* C5: a fit whose numerical steps do not fail runs at most max_iter E-steps
\* and M-steps, leaves the loop converged or exhausted, and there assigns the
\* final parameters, the final log-likelihood and isFitted = TRUE.
C5_FitEndsFitted ==
    /\ hist.eCount <= self.max_iter
    /\ hist.mCount <= self.max_iter
    /\ (pc = "idle" /\ ret.op = "fit" /\ hist.exit \in {"break", "else"}) =>
          /\ ret.kind = "none"
          /\ self.isFitted
          /\ self.hasNll
          /\ self.params.kind = "dict"

\* ---------------------------------------------------------------------- C6
\* C6: without supplied parameters, initialization is invoked exactly once
\* before the first E-step, which runs on the parameter set it produced,
\* whatever the init method; with supplied parameters initialization is never
\* invoked and the first E-step runs on the supplied parameters.
C6_FirstEStepOnInitialParameters ==
    (hist.eCount >= 1) =>
        IF hist.supplied.kind = "none"
        THEN /\ hist.initCalls = 1
             /\ hist.initOut.kind = "dict"
             /\ hist.firstE = hist.initOut
        ELSE /\ hist.initCalls = 0
             /\ hist.firstE = hist.supplied

\* ---------------------------------------------------------------------- C7
\* C7: on a fitted model, score(X) is exactly the mean of what
\* score_samples(X) returns on the same stored parameters: the examples'
\* log-likelihoods add up to the score times their number.
C7_ScoreIsMeanOfScoreSamples ==
    (pc = "idle" /\ ret.op = "score" /\ ret.kind = "value") =>
        /\ self.isFitted
        /\ Len(ret.nested) > 0
        /\ Len(ret.val) = 1
        /\ FMul(ret.val[1], Fin(Len(ret.nested), 1)) = FSum(ret.nested)

\* score returned a finite, non-zero value for examples of differing likelihood
C7_Witness ==
    /\ pc = "idle" /\ ret.op = "score" /\ ret.kind = "value"
    /\ IsFin(ret.val[1]) /\ ret.val[1] # Zero
    /\ \E e \in 1..Len(ret.nested) : ret.nested[e] # ret.val[1]

\* ---------------------------------------------------------------------- C8
\* C8: each row of the responsibilities an E-step returns sums to 1, and in
\* every fitted model, whatever initial parameters were supplied, the stored
\* weights are non-negative and sum to 1.
C8_FittedWeightsAreDistribution ==
    /\ (pc \in {"mstep", "store"} /\ hist.eCount >= 1) =>
          \A e \in 1..Len(ss.responsibilities) :
              FSum(ss.responsibilities[e]) = One
    /\ self.isFitted =>
          /\ \A j \in 1..Len(self.params.components) :
                /\ IsFin(self.params.components[j])
                /\ self.params.components[j].n >= 0
          /\ FSum(self.params.components) = One

\* ---------------------------------------------------------------------- C9
\* C9: after every M-step and in every fitted model, for every variant and
\* every initial parameter set, the weights, the means and each covariance
\* list have exactly n_components entries, entry k of each describing
\* component k.
C9_ListsHaveKEntries ==
    /\ (hist.mCount >= 1) =>
          /\ Len(hist.lastM.components) = self.n_components
          /\ Len(hist.lastM.mu_list) = self.n_components
          /\ Len(hist.lastM.cov_list) = self.n_components
          /\ LowRank(cls) => Len(hist.lastM.W_list) = self.n_components
    /\ self.isFitted =>
          /\ Len(self.params.components) = self.n_components
          /\ Len(self.params.mu_list) = self.n_components
          /\ Len(self.params.cov_list) = self.n_components
          /\ LowRank(cls) => Len(self.params.W_list) = self.n_components
          /\ \A k \in 1..self.n_components :
                /\ self.params.mu_list[k].comp = k
                /\ self.params.cov_list[k].comp = k
                /\ LowRank(cls) => self.params.W_list[k].comp = k

\* --------------------------------------------------------------------- C10
\* C10: with n_components = 1, for every variant and every training set,
\* every E-step returns responsibility exactly 1.0 for every example and
\* every M-step returns the single weight exactly 1.0.
C10_SingleComponentIsCertain ==
    (self.n_components = 1) =>
        /\ (pc \in {"mstep", "store"} /\ hist.eCount >= 1) =>
              \A e \in 1..Len(ss.responsibilities) :
                  ss.responsibilities[e] = <<One>>
        /\ (hist.mCount >= 1) => hist.lastM.components = <<One>>

\* --------------------------------------------------------------------- C11
\* C11: a step that is no step of fit (a call of sample, score_samples or
\* score) leaves the stored parameters, the stored training log-likelihood,
\* the recorded data dimensionality and the fitted flag as they were.
C11_QueriesLeaveModel ==
    [][(pc = "idle" /\ nFits' = nFits) =>
          /\ self'.params = self.params
          /\ self'.hasNll = self.hasNll
          /\ self'.trainNll = self.trainNll
          /\ self'.data_dim = self.data_dim
          /\ self'.isFitted = self.isFitted]_vars

\* score_samples returned the log-likelihoods of two examples on a fitted model
C11_Witness ==
    /\ pc = "idle" /\ self.isFitted /\ nQueries >= 1
    /\ ret.op = "score_samples" /\ ret.kind = "value"
    /\ Len(ret.val) = 2
    /\ self.params = origin.lastM

\* --------------------------------------------------------------------- C12
\* C12: the tolerance test cannot succeed in the first pass of the loop, and
\* a fit call that completes has applied at least one M-step, whose output -
\* not the initial parameters as they were passed in - is what it stores.
C12_CompletedFitAppliedMStep ==
    /\ (hist.exit = "break") => (hist.eCount >= 2 /\ hist.mCount >= 1)
    /\ (pc = "idle" /\ ret.op = "fit" /\ ret.kind = "none") =>
          /\ self.max_iter >= 1
          /\ hist.mCount >= 1
          /\ self.params = hist.lastM
          /\ self.params # hist.firstE
    /\ self.isFitted =>
          /\ origin.mCount >= 1
          /\ self.params = origin.lastM
          /\ self.params # origin.firstE

\* a fit from caller-supplied parameters completed after a single pass
C12_Witness ==
    /\ pc = "idle" /\ ret.op = "fit" /\ ret.kind = "none"
    /\ hist.supplied.kind = "dict"
    /\ hist.eCount = 1 /\ hist.mCount = 1
    /\ self.params # hist.supplied

\* --------------------------------------------------------------------- C13
\* C13 (as stated): after fit completes, converged or exhausted, the stored
\* training log-likelihood is the log-likelihood of the training data
\* evaluated under the stored parameters: the E-step that produced it ran on
\* the parameters that are stored.
C13_NllIsOfStoredParameters ==
    self.isFitted =>
        /\ self.hasNll
        /\ self.trainNll = origin.lastLl
        /\ self.params = origin.lastE

\* C13 (amended): after fit completes, the stored training log-likelihood is
\* the one the last E-step of the call returned; after convergence that
\* E-step ran on the stored parameters, after exhaustion it ran on the input
\* of the last M-step, whose output is stored.
C13_NllIsOfLastEStep ==
    self.isFitted =>
        /\ self.hasNll
        /\ self.trainNll = origin.lastLl
        /\ origin.exit \in {"break", "else"}
        /\ (origin.exit = "break") => self.params = origin.lastE
        /\ (origin.exit = "else") =>
              /\ origin.mCount = origin.eCount
              /\ self.params = origin.lastM

\* an exhausted fit stored a finite log-likelihood with parameters that are
\* not the ones its last E-step ran on
C13_Witness ==
    /\ pc = "idle" /\ self.isFitted
    /\ origin.exit = "else" /\ origin.eCount = 2
    /\ IsFin(self.trainNll)
    /\ self.params # origin.lastE

\* --------------------------------------------------------------------- C14
\* C14: a fit call that aborts with an error inside initialization, an E-step
\* or an M-step leaves the stored parameters, the stored training
\* log-likelihood, the fitted flag and the recorded data dimensionality as
\* they were before the call; hence a fitted model's recorded dimensionality
\* is that of the training data its stored parameters were fitted on.
C14_AbortedFitLeavesModel ==
    /\ (pc = "idle" /\ ret.op = "fit" /\ hist.exit = "raise") =>
          /\ self.params = hist.before.params
          /\ self.hasNll = hist.before.hasNll
          /\ self.trainNll = hist.before.trainNll
          /\ self.isFitted = hist.before.isFitted
          /\ self.data_dim = hist.before.data_dim
    /\ self.isFitted => self.data_dim = origin.X.d

=============================================================================
